---------------------------- MODULE Spec2Model ----------------------------
(***************************************************************************)
(* Model of taxcalc/reforms/earnings_shifting.py: the full and partial     *)
(* earnings-shifting transforms, the adoption-probability function, the    *)
(* decile table writer and the driver main().                              *)
(*                                                                         *)
(* A Records object is a record of columns; a column is a function from    *)
(* Rows to integers (money amounts and weights in whole units).            *)
(* Probabilities and uniform draws are in millionths: a draw u in [0,1)    *)
(* is held as floor(u * 10^6), and for a probability that is a whole       *)
(* number k of millionths, u < k / 10^6 iff floor(u * 10^6) < k.           *)
(***************************************************************************)
EXTENDS Integers, Sequences, FiniteSets

VARIABLES
    pc,             \* position of the call under study / of main()
    pre,            \* the Records object as it was when the call began
    recs,           \* the Records object the transform mutates
    recs_noes,      \* reference Records: reform, no earnings shifting
    recs_full_p,    \* reference Records: full shifting, taxpayers only
    recs_full_b,    \* reference Records: full shifting, taxpayers and spouses
    param,          \* the parameter dictionary
    taxpayer_only,  \* the flag full_earnings_shift was called with
    rng,            \* state of the process-wide numpy generator
    locals,         \* local arrays of partial_earnings_shift at its return
    report,         \* what partial_earnings_shift wrote to stdout
    twin,           \* a second execution of partial_earnings_shift
    dfx,            \* the DataFrame handed to write_decile_table
    table,          \* the rows write_decile_table wrote
    puf,            \* the columns every Records() of main() is loaded with
    calcs,          \* the Calculator objects of main()
    stdout,         \* what main() has written to stdout
    stderr,         \* what main() has written to stderr
    rc,             \* <<>> while main() runs, then <<its return code>>
    tcout,          \* one row of tc --dump output (process_tc_output.py)
    ovar,           \* the dictionary extract_output returned for it
    outline         \* the line construct_output_line built from it

mainVars == <<puf, calcs, stdout, stderr, rc>>

taxsimVars == <<tcout, ovar, outline>>

vars == <<pc, pre, recs, recs_noes, recs_full_p, recs_full_b, param,
          taxpayer_only, rng, locals, report, twin, dfx, table, mainVars,
          taxsimVars>>

otherVars == <<twin, dfx, table, mainVars, taxsimVars>>

----------------------------------------------------------------------------
(* Bounds *)

NumRows == 2

TopWage == 2

MaxWeight == 2

MaxYearsAhead == 1

Rows == 1..NumRows

----------------------------------------------------------------------------
(* numpy column arithmetic *)

Zero == [i \in Rows |-> 0]

ColAdd(a, b) == [i \in Rows |-> a[i] + b[i]]

ColSub(a, b) == [i \in Rows |-> a[i] - b[i]]

ColMul(a, b) == [i \in Rows |-> a[i] * b[i]]

\* np.where(cond, a, b)
Where(cond, a, b) == [i \in Rows |-> IF cond[i] THEN a[i] ELSE b[i]]

RECURSIVE SumUpTo(_, _, _)
SumUpTo(col, mask, n) ==
    IF n = 0 THEN 0
    ELSE SumUpTo(col, mask, n - 1) + (IF mask[n] THEN col[n] ELSE 0)

\* col[mask].sum()
MaskedSum(col, mask) == SumUpTo(col, mask, NumRows)

----------------------------------------------------------------------------
(* numpy's global Mersenne Twister.  A generator state is the seed it was  *)
(* last initialised from and the number of doubles drawn since; DrawTable  *)
(* holds the first doubles of MT19937 after np.random.seed(seed), in       *)
(* millionths (floor).                                                     *)

urn_seed == 123456

DrawTable(seed) ==
    IF seed = urn_seed
    THEN <<126969, 966717, 260476, 897236, 376749, 336221, 451376, 840255,
           123102, 543026, 373012, 447996, 129440, 859878, 820388, 352053,
           228887, 776783, 594783, 137553, 852899, 235507, 146227, 589868>>
    ELSE <<548813, 715189, 602763, 544883, 423654, 645894, 437587, 891773,
           963662, 383441, 791725, 528894, 568044, 925596, 71036, 87129,
           20218, 832619, 778156, 870012, 978618, 799158, 461479, 780529>>

\* np.random.seed(seed)
np_random_seed(g, seed) == [seed |-> seed, pos |-> 0]

\* np.random.random(recs.MARS.shape): one double per row, generator advanced
np_random_random(g) ==
    [urn |-> [i \in Rows |-> DrawTable(g.seed)[g.pos + i]],
     rng |-> [g EXCEPT !.pos = @ + NumRows]]

----------------------------------------------------------------------------
(* full_earnings_shift *)

\* A slip: the wage column is zeroed before it is added to the others.
ShiftTaxpayer_ZeroFirst(r) ==
    LET r0 == [r  EXCEPT !.e00200p = Zero]
        r1 == [r0 EXCEPT !.e02000  = ColAdd(r0.e02000, r0.e00200p)]
        r2 == [r1 EXCEPT !.e26270  = ColAdd(r1.e26270, r1.e00200p)]
        r3 == [r2 EXCEPT !.k1bx14p = ColAdd(r2.k1bx14p, r2.e00200p)]
    IN  [r3 EXCEPT !.e00200  = ColSub(r3.e00200, r.e00200p)]

\* lines 300-304: the taxpayer's wages move to pass-through earnings
ShiftTaxpayer(r) ==
    LET r1 == [r  EXCEPT !.e02000  = ColAdd(r.e02000, r.e00200p)]
        r2 == [r1 EXCEPT !.e26270  = ColAdd(r1.e26270, r1.e00200p)]
        r3 == [r2 EXCEPT !.k1bx14p = ColAdd(r2.k1bx14p, r2.e00200p)]
        r4 == [r3 EXCEPT !.e00200  = ColSub(r3.e00200, r3.e00200p)]
    IN  [r4 EXCEPT !.e00200p = Zero]

\* A slip: the spouse's wage column is not zeroed after the move.
ShiftSpouse_KeepWage(r) ==
    LET r1 == [r  EXCEPT !.e02000  = ColAdd(r.e02000, r.e00200s)]
        r2 == [r1 EXCEPT !.e26270  = ColAdd(r1.e26270, r1.e00200s)]
        r3 == [r2 EXCEPT !.k1bx14s = ColAdd(r2.k1bx14s, r2.e00200s)]
    IN  [r3 EXCEPT !.e00200  = ColSub(r3.e00200, r3.e00200s)]

\* lines 307-311: the spouse's wages move to pass-through earnings
ShiftSpouse(r) ==
    LET r1 == [r  EXCEPT !.e02000  = ColAdd(r.e02000, r.e00200s)]
        r2 == [r1 EXCEPT !.e26270  = ColAdd(r1.e26270, r1.e00200s)]
        r3 == [r2 EXCEPT !.k1bx14s = ColAdd(r2.k1bx14s, r2.e00200s)]
        r4 == [r3 EXCEPT !.e00200  = ColSub(r3.e00200, r3.e00200s)]
    IN  [r4 EXCEPT !.e00200s = Zero]

\* A slip: the flag is not consulted.
full_earnings_shift_BothAlways(r, tp_only) == ShiftSpouse(ShiftTaxpayer(r))

full_earnings_shift(r, tp_only) ==
    IF tp_only = FALSE THEN ShiftSpouse(ShiftTaxpayer(r)) ELSE ShiftTaxpayer(r)

----------------------------------------------------------------------------
(* probability *)

\* A slip: strict comparisons against the thresholds.
probability_Strict(prm, indiv_earnings, tax_savings) ==
    Where([i \in Rows |-> /\ indiv_earnings[i] > prm.min_earnings
                          /\ tax_savings[i] > prm.min_savings],
          [i \in Rows |-> prm.shift_prob], Zero)

probability(prm, indiv_earnings, tax_savings) ==
    Where([i \in Rows |-> /\ indiv_earnings[i] >= prm.min_earnings
                          /\ tax_savings[i] >= prm.min_savings],
          [i \in Rows |-> prm.shift_prob], Zero)

----------------------------------------------------------------------------
(* partial_earnings_shift *)

\* line 340 / 352: does = urn < prob
Adopts(urn, prob) == [i \in Rows |-> urn[i] < prob[i]]

\* A slip: the transform of full_earnings_shift, applied to every row.
MaskedShiftTaxpayer_Unmasked(r, does) ==
    LET r1 == [r  EXCEPT !.e02000  = ColAdd(r.e02000, r.e00200p)]
        r2 == [r1 EXCEPT !.e26270  = ColAdd(r1.e26270, r1.e00200p)]
        r3 == [r2 EXCEPT !.e00200  = ColSub(r2.e00200, r2.e00200p)]
        r4 == [r3 EXCEPT !.k1bx14p = ColAdd(r3.k1bx14p, r3.e00200p)]
    IN  [r4 EXCEPT !.e00200p = Zero]

\* lines 343-347: masked shift of the taxpayer's wages
MaskedShiftTaxpayer(r, does) ==
    LET r1 == [r  EXCEPT !.e02000  = Where(does, ColAdd(r.e02000, r.e00200p), r.e02000)]
        r2 == [r1 EXCEPT !.e26270  = Where(does, ColAdd(r1.e26270, r1.e00200p), r1.e26270)]
        r3 == [r2 EXCEPT !.e00200  = Where(does, ColSub(r2.e00200, r2.e00200p), r2.e00200)]
        r4 == [r3 EXCEPT !.k1bx14p = Where(does, ColAdd(r3.k1bx14p, r3.e00200p), r3.k1bx14p)]
    IN  [r4 EXCEPT !.e00200p = Where(does, Zero, r4.e00200p)]

\* A slip: the aggregate e02000 is not updated for the spouse.
MaskedShiftSpouse_NoAggregate(r, does) ==
    LET r2 == [r  EXCEPT !.e26270  = Where(does, ColAdd(r.e26270, r.e00200s), r.e26270)]
        r3 == [r2 EXCEPT !.e00200  = Where(does, ColSub(r2.e00200, r2.e00200s), r2.e00200)]
        r4 == [r3 EXCEPT !.k1bx14s = Where(does, ColAdd(r3.k1bx14s, r3.e00200s), r3.k1bx14s)]
    IN  [r4 EXCEPT !.e00200s = Where(does, Zero, r4.e00200s)]

\* lines 355-359: masked shift of the spouse's wages
MaskedShiftSpouse(r, does) ==
    LET r1 == [r  EXCEPT !.e02000  = Where(does, ColAdd(r.e02000, r.e00200s), r.e02000)]
        r2 == [r1 EXCEPT !.e26270  = Where(does, ColAdd(r1.e26270, r1.e00200s), r1.e26270)]
        r3 == [r2 EXCEPT !.e00200  = Where(does, ColSub(r2.e00200, r2.e00200s), r2.e00200)]
        r4 == [r3 EXCEPT !.k1bx14s = Where(does, ColAdd(r3.k1bx14s, r3.e00200s), r3.k1bx14s)]
    IN  [r4 EXCEPT !.e00200s = Where(does, Zero, r4.e00200s)]

\* A slip: the generator is not re-initialised at entry.
EntryGenerator_NotSeeded(g) == g

\* line 335: the generator the draws are taken from
EntryGenerator(g) == np_random_seed(g, urn_seed)

\* A slip: the earnings figure leaves the weights out.
TaxpayerFigures_Unweighted(r, noes, does) ==
    [numshifters |-> MaskedSum(noes.s006, does),
     earnshifted |-> MaskedSum(noes.e00200p, does)]

\* lines 341-342: the taxpayer figures
TaxpayerFigures(r, noes, does) ==
    [numshifters |-> MaskedSum(noes.s006, does),
     earnshifted |-> MaskedSum(ColMul(noes.s006, noes.e00200p), does)]

\* lines 353-354: the spouse figures
SpouseFigures(r, noes, does) ==
    [numshifters |-> MaskedSum(r.s006, does),
     earnshifted |-> MaskedSum(ColMul(noes.s006, noes.e00200s), does)]

\* A slip: the spouse pass leaves the total-wage column as the taxpayer
\* pass left it.
partial_earnings_shift_SpouseTotalKept(r, full_p, full_b, noes, prm, g) ==
    LET g0     == EntryGenerator(g)
        sav_p  == ColSub(noes.combined, full_p.combined)
        prob_p == probability(prm, r.e00200p, sav_p)
        d1     == np_random_random(g0)
        does_p == Adopts(d1.urn, prob_p)
        fig_p  == TaxpayerFigures(r, noes, does_p)
        mid    == MaskedShiftTaxpayer(r, does_p)
        sav_s  == ColSub(full_p.combined, full_b.combined)
        prob_s == probability(prm, mid.e00200s, sav_s)
        d2     == np_random_random(d1.rng)
        does_s == Adopts(d2.urn, prob_s)
        fig_s  == SpouseFigures(mid, noes, does_s)
        out    == [MaskedShiftSpouse(mid, does_s) EXCEPT !.e00200 = mid.e00200]
    IN  [recs   |-> out,
         rng    |-> d2.rng,
         locals |-> [entry_rng |-> g, sav_p |-> sav_p, prob_p |-> prob_p, urn_p |-> d1.urn,
                     does_p |-> does_p, mid |-> mid,
                     sav_s |-> sav_s, prob_s |-> prob_s, urn_s |-> d2.urn,
                     does_s |-> does_s],
         report |-> [numshifters_p |-> fig_p.numshifters,
                     earnshifted_p |-> fig_p.earnshifted,
                     numshifters_s |-> fig_s.numshifters,
                     earnshifted_s |-> fig_s.earnshifted]]

\* The whole call: the mutated Records, the generator it leaves behind, its
\* local arrays and the four figures it writes (lines 361-369).
partial_earnings_shift(r, full_p, full_b, noes, prm, g) ==
    LET g0     == EntryGenerator(g)
        sav_p  == ColSub(noes.combined, full_p.combined)
        prob_p == probability(prm, r.e00200p, sav_p)
        d1     == np_random_random(g0)
        does_p == Adopts(d1.urn, prob_p)
        fig_p  == TaxpayerFigures(r, noes, does_p)
        mid    == MaskedShiftTaxpayer(r, does_p)
        sav_s  == ColSub(full_p.combined, full_b.combined)
        prob_s == probability(prm, mid.e00200s, sav_s)
        d2     == np_random_random(d1.rng)
        does_s == Adopts(d2.urn, prob_s)
        fig_s  == SpouseFigures(mid, noes, does_s)
        out    == MaskedShiftSpouse(mid, does_s)
    IN  [recs   |-> out,
         rng    |-> d2.rng,
         locals |-> [entry_rng |-> g, sav_p |-> sav_p, prob_p |-> prob_p, urn_p |-> d1.urn,
                     does_p |-> does_p, mid |-> mid,
                     sav_s |-> sav_s, prob_s |-> prob_s, urn_s |-> d2.urn,
                     does_s |-> does_s],
         report |-> [numshifters_p |-> fig_p.numshifters,
                     earnshifted_p |-> fig_p.earnshifted,
                     numshifters_s |-> fig_s.numshifters,
                     earnshifted_s |-> fig_s.earnshifted]]

----------------------------------------------------------------------------
(* Inputs of the calls *)

Const(v) == [i \in Rows |-> v]

Index == [i \in Rows |-> i]

\* Pass-through columns of a row before the call: in the containment chain
\* with slack, tight, with losses, and out of the chain.
PassThrough ==
    { [e02000 |-> 5,  e26270 |-> 3,  k1bx14p |-> 1,  k1bx14s |-> 1],
      [e02000 |-> 2,  e26270 |-> 2,  k1bx14p |-> 1,  k1bx14s |-> 1],
      [e02000 |-> -1, e26270 |-> -2, k1bx14p |-> -3, k1bx14s |-> 0],
      [e02000 |-> 1,  e26270 |-> 2,  k1bx14p |-> 2,  k1bx14s |-> 1] }

TaxpayerWages == {0, TopWage + 1}

SpouseWages == {0, TopWage}

MkRecords(s006, p, s, off, pt, combined) ==
    [s006 |-> s006, e00200 |-> [i \in Rows |-> p[i] + s[i] + off],
     e00200p |-> p, e00200s |-> s,
     e02000 |-> Const(pt.e02000), e26270 |-> Const(pt.e26270),
     k1bx14p |-> Const(pt.k1bx14p), k1bx14s |-> Const(pt.k1bx14s),
     combined |-> combined]

Generators == {[seed |-> sd, pos |-> k] : sd \in {0, urn_seed}, k \in {0, 1, NumRows}}

NoLocals == [none |-> TRUE]

NoReport == [none |-> TRUE]

NoTwin == [none |-> TRUE]

NoTable == <<>>

\* main() is not running.
NoMain ==
    /\ puf = NoTable
    /\ calcs = NoTable
    /\ stdout = <<>>
    /\ stderr = <<>>
    /\ rc = <<>>

\* process_tc_output.py is not running.
NoTaxsim ==
    /\ tcout = NoTable
    /\ ovar = NoTable
    /\ outline = NoTable

\* Inputs that vary the record set under transformation.
InitTransform ==
    \E p \in [Rows -> TaxpayerWages], s \in [Rows -> SpouseWages],
       pt \in PassThrough, off \in {0, 1}, cp \in {Zero, Const(2)},
       sp \in {0, 500000, 1000000}, me \in {0, TopWage + 1} :
        /\ pre = MkRecords(Index, p, s, off, pt, Zero)
        /\ recs_noes = MkRecords(Index, p, s, off, pt, Const(1))
        /\ recs_full_p = MkRecords(Index, p, s, off, pt, cp)
        /\ recs_full_b = MkRecords(Index, p, s, off, pt, Zero)
        /\ param = [taxyear |-> 2017, min_earnings |-> me, min_savings |-> 0,
                    shift_prob |-> sp]
        /\ rng = [seed |-> 0, pos |-> 0]

\* Inputs that vary the scored taxes of the reference record sets, the
\* parameters and the generator at entry.  The reference sets are scenarios
\* of the same population in the same year (main(), lines 123-125), so
\* their weights and wages as read by the call are those of recs.
InitReference ==
    \E p \in [Rows -> TaxpayerWages], s \in [Rows -> SpouseWages],
       cp \in {Zero, Const(2), Index},
       sp \in {0, 500000, 1000000}, me \in {0, TopWage + 1}, ms \in {0, 1},
       g \in Generators :
        /\ pre = MkRecords(Index, p, s, 0, CHOOSE pt \in PassThrough : pt.e02000 = 5, Zero)
        /\ recs_noes = MkRecords(Index, p, s, 0,
                                 CHOOSE pt \in PassThrough : pt.e02000 = 5, Const(1))
        /\ recs_full_p = [recs_noes EXCEPT !.combined = cp]
        /\ recs_full_b = [recs_noes EXCEPT !.combined = Zero]
        /\ param = [taxyear |-> 2017, min_earnings |-> me, min_savings |-> ms,
                    shift_prob |-> sp]
        /\ rng = g

Init ==
    /\ pc = "start"
    /\ InitTransform \/ InitReference
    /\ recs = pre
    /\ taxpayer_only = FALSE
    /\ locals = NoLocals
    /\ report = NoReport
    /\ twin = NoTwin
    /\ dfx = NoTable
    /\ table = NoTable
    /\ NoMain
    /\ NoTaxsim

----------------------------------------------------------------------------
(* The calls *)

FullEarningsShift(flag) ==
    /\ pc = "start"
    /\ pc' = "full"
    /\ taxpayer_only' = flag
    /\ recs' = full_earnings_shift(recs, flag)
    /\ UNCHANGED <<pre, recs_noes, recs_full_p, recs_full_b, param, rng,
                   locals, report, otherVars>>

PartialEarningsShift ==
    /\ pc = "start"
    /\ pc' = "partial"
    /\ LET res == partial_earnings_shift(recs, recs_full_p, recs_full_b,
                                         recs_noes, param, rng)
       IN  /\ recs' = res.recs
           /\ rng' = res.rng
           /\ locals' = res.locals
           /\ report' = res.report
    /\ UNCHANGED <<pre, recs_noes, recs_full_p, recs_full_b, param,
                   taxpayer_only, otherVars>>

Next ==
    \/ \E flag \in BOOLEAN : FullEarningsShift(flag)
    \/ PartialEarningsShift

Spec == Init /\ [][Next]_vars

----------------------------------------------------------------------------
(* Claims about full_earnings_shift, probability and partial_earnings_shift *)

Columns == DOMAIN pre

\* The wage full_earnings_shift moves out of row i for the roles it selects.
SelectedWage(i) ==
    pre.e00200p[i] + (IF taxpayer_only = FALSE THEN pre.e00200s[i] ELSE 0)

\* C1: after full_earnings_shift, in every row, each selected role's wage as
\* it was before the call has been added to e02000, to e26270 and to that
\* role's k1bx14 column, and that role's wage column is 0.
C1_FullShiftMovesWage ==
    pc = "full" =>
        \A i \in Rows :
            /\ recs.e02000[i] = pre.e02000[i] + SelectedWage(i)
            /\ recs.e26270[i] = pre.e26270[i] + SelectedWage(i)
            /\ recs.k1bx14p[i] = pre.k1bx14p[i] + pre.e00200p[i]
            /\ recs.e00200p[i] = 0
            /\ taxpayer_only = FALSE =>
                   /\ recs.k1bx14s[i] = pre.k1bx14s[i] + pre.e00200s[i]
                   /\ recs.e00200s[i] = 0

C1_Witness ==
    /\ pc = "full"
    /\ taxpayer_only = FALSE
    /\ \E i \in Rows : pre.e00200p[i] > 0 /\ pre.e00200s[i] > 0

\* C2 as stated: after full_earnings_shift with either flag, in every row
\* e00200p + e02000 is what it was before the call, and so is
\* e00200s + e02000.
C2_RoleSumsConserved ==
    pc = "full" =>
        \A i \in Rows :
            /\ recs.e00200p[i] + recs.e02000[i] = pre.e00200p[i] + pre.e02000[i]
            /\ recs.e00200s[i] + recs.e02000[i] = pre.e00200s[i] + pre.e02000[i]

\* C2 amended: after full_earnings_shift with either flag, in every row
\* e00200p + e00200s + e02000 is what it was before the call; e00200p +
\* e02000 alone is conserved when only the taxpayer is shifted.
C2_TotalConserved ==
    pc = "full" =>
        \A i \in Rows :
            /\ recs.e00200p[i] + recs.e00200s[i] + recs.e02000[i]
                   = pre.e00200p[i] + pre.e00200s[i] + pre.e02000[i]
            /\ taxpayer_only =>
                   recs.e00200p[i] + recs.e02000[i] = pre.e00200p[i] + pre.e02000[i]

C2_Witness ==
    /\ pc = "full"
    /\ taxpayer_only = FALSE
    /\ \E i \in Rows : pre.e00200p[i] > 0 /\ pre.e00200s[i] > 0
                       /\ recs.e02000[i] = pre.e02000[i] + pre.e00200p[i] + pre.e00200s[i]

\* C3: after full_earnings_shift with taxpayer_only set, in every row
\* e00200s and k1bx14s are unchanged and e02000, e26270 and e00200 have
\* changed by the taxpayer's wage alone.
C3_SpouseUntouched ==
    (pc = "full" /\ taxpayer_only) =>
        \A i \in Rows :
            /\ recs.e00200s[i] = pre.e00200s[i]
            /\ recs.k1bx14s[i] = pre.k1bx14s[i]
            /\ recs.e02000[i] = pre.e02000[i] + pre.e00200p[i]
            /\ recs.e26270[i] = pre.e26270[i] + pre.e00200p[i]
            /\ recs.e00200[i] = pre.e00200[i] - pre.e00200p[i]

C3_Witness ==
    /\ pc = "full"
    /\ taxpayer_only
    /\ \E i \in Rows : pre.e00200p[i] > 0 /\ pre.e00200s[i] > 0

\* C4: both probability arrays of partial_earnings_shift hold, in every row,
\* shift_prob when the earnings passed are at least min_earnings and the
\* savings passed are at least min_savings, and 0 otherwise.
C4_ProbabilityGate ==
    pc = "partial" =>
        \A i \in Rows :
            /\ locals.prob_p[i] =
                   IF /\ pre.e00200p[i] >= param.min_earnings
                      /\ recs_noes.combined[i] - recs_full_p.combined[i] >= param.min_savings
                   THEN param.shift_prob ELSE 0
            /\ locals.prob_s[i] =
                   IF /\ pre.e00200s[i] >= param.min_earnings
                      /\ recs_full_p.combined[i] - recs_full_b.combined[i] >= param.min_savings
                   THEN param.shift_prob ELSE 0
            /\ locals.prob_p[i] \in {0, param.shift_prob}
            /\ locals.prob_s[i] \in {0, param.shift_prob}

\* A row on both thresholds gets shift_prob; a row with negative savings gets 0.
C4_Witness ==
    /\ pc = "partial"
    /\ param.shift_prob > 0
    /\ \E i \in Rows :
           /\ pre.e00200p[i] = param.min_earnings
           /\ locals.sav_p[i] = param.min_savings
           /\ locals.prob_p[i] = param.shift_prob
    /\ \E j \in Rows :
           /\ locals.sav_p[j] < 0
           /\ pre.e00200p[j] >= param.min_earnings
           /\ locals.prob_p[j] = 0

\* C5: in each pass of partial_earnings_shift a row adopts iff its draw is
\* below its probability; an adopting row has the role's wage added to
\* e02000 and e26270 and the wage column zeroed; every column of a
\* non-adopting row is as it was before the pass.
C5_MaskedShift ==
    pc = "partial" =>
        \A i \in Rows :
            /\ locals.does_p[i] <=> locals.urn_p[i] < locals.prob_p[i]
            /\ locals.does_s[i] <=> locals.urn_s[i] < locals.prob_s[i]
            /\ locals.prob_p[i] = 0 => ~locals.does_p[i]
            /\ locals.prob_p[i] = 1000000 => locals.does_p[i]
            /\ locals.prob_s[i] = 0 => ~locals.does_s[i]
            /\ locals.prob_s[i] = 1000000 => locals.does_s[i]
            /\ IF locals.does_p[i]
               THEN /\ locals.mid.e02000[i] = pre.e02000[i] + pre.e00200p[i]
                    /\ locals.mid.e26270[i] = pre.e26270[i] + pre.e00200p[i]
                    /\ locals.mid.e00200p[i] = 0
               ELSE \A c \in Columns : locals.mid[c][i] = pre[c][i]
            /\ IF locals.does_s[i]
               THEN /\ recs.e02000[i] = locals.mid.e02000[i] + locals.mid.e00200s[i]
                    /\ recs.e26270[i] = locals.mid.e26270[i] + locals.mid.e00200s[i]
                    /\ recs.e00200s[i] = 0
               ELSE \A c \in Columns : recs[c][i] = locals.mid[c][i]

\* Both passes have an adopter and a non-adopter, each with wages to move.
C5_Witness ==
    /\ pc = "partial"
    /\ \E i, j \in Rows :
           /\ locals.does_p[i] /\ pre.e00200p[i] > 0
           /\ ~locals.does_p[j] /\ pre.e00200p[j] > 0
    /\ \E i, j \in Rows :
           /\ locals.does_s[i] /\ pre.e00200s[i] > 0
           /\ ~locals.does_s[j] /\ pre.e00200s[j] > 0

Chain(r, i) ==
    /\ r.k1bx14p[i] + r.k1bx14s[i] <= r.e26270[i]
    /\ r.e26270[i] <= r.e02000[i]

\* C8: a row in which k1bx14p + k1bx14s <= e26270 <= e02000 held before
\* full_earnings_shift or partial_earnings_shift satisfies it after the
\* call, and between the two passes of partial_earnings_shift.
C8_ChainPreserved ==
    /\ pc = "full" => \A i \in Rows : Chain(pre, i) => Chain(recs, i)
    /\ pc = "partial" =>
           \A i \in Rows : Chain(pre, i) => Chain(locals.mid, i) /\ Chain(recs, i)

\* A tight chain, with a spouse adopting in a row whose taxpayer did not.
C8_Witness ==
    /\ pc = "partial"
    /\ \E i \in Rows :
           /\ Chain(pre, i)
           /\ pre.e26270[i] = pre.e02000[i]
           /\ ~locals.does_p[i] /\ pre.e00200p[i] > 0
           /\ locals.does_s[i] /\ pre.e00200s[i] > 0

\* C9: when partial_earnings_shift returns, the four figures it has
\* written are, for each pass, the sum over the pass's adopting rows of the
\* mutated set's s006, and of that s006 times the wage the pass moved out
\* of the mutated set's wage column (its e00200p, respectively e00200s,
\* just before the pass).
C9_FiguresFromMutatedSet ==
    pc = "partial" =>
        /\ report.numshifters_p = MaskedSum(pre.s006, locals.does_p)
        /\ report.earnshifted_p =
               MaskedSum(ColMul(pre.s006, pre.e00200p), locals.does_p)
        /\ report.numshifters_s = MaskedSum(locals.mid.s006, locals.does_s)
        /\ report.earnshifted_s =
               MaskedSum(ColMul(locals.mid.s006, locals.mid.e00200s), locals.does_s)
        /\ \A i \in Rows :
               /\ locals.does_p[i] =>
                      pre.e00200p[i] = locals.mid.e02000[i] - pre.e02000[i]
               /\ locals.does_s[i] =>
                      locals.mid.e00200s[i] = recs.e02000[i] - locals.mid.e02000[i]

\* Both passes have an adopter with wages, those of the first above one, and a row
\* with wages that does not adopt, so each figure is a proper part of the
\* population's.
C9_Witness ==
    /\ pc = "partial"
    /\ \E i, j \in Rows :
           /\ locals.does_p[i] /\ ~locals.does_p[j]
           /\ pre.e00200p[i] > 0 /\ pre.e00200p[j] > 0
    /\ \E i, j \in Rows :
           /\ locals.does_s[i] /\ ~locals.does_s[j]
           /\ pre.e00200s[i] > 0 /\ pre.e00200s[j] > 0
    /\ report.earnshifted_p > report.numshifters_p
    /\ report.numshifters_p > 0
    /\ report.earnshifted_s > 0

----------------------------------------------------------------------------
(* Two executions of partial_earnings_shift from the same arguments, each  *)
(* entered with the process-wide generator in a state of its own.          *)

InitTwoExecutions ==
    /\ pc = "start"
    /\ \E p \in [Rows -> TaxpayerWages], s \in [Rows -> SpouseWages],
          cp \in {Zero, Const(2)}, sp \in {0, 500000, 1000000},
          me \in {0, TopWage + 1}, g1 \in Generators, g2 \in Generators :
           /\ pre = MkRecords(Index, p, s, 0, CHOOSE pt \in PassThrough : pt.e02000 = 5, Zero)
           /\ recs_noes = [pre EXCEPT !.combined = Const(1)]
           /\ recs_full_p = [pre EXCEPT !.combined = cp]
           /\ recs_full_b = pre
           /\ param = [taxyear |-> 2017, min_earnings |-> me, min_savings |-> 0,
                       shift_prob |-> sp]
           /\ rng = g1
           /\ twin = [pc |-> "start", recs |-> pre, rng |-> g2,
                      locals |-> NoLocals, report |-> NoReport]
    /\ recs = pre
    /\ taxpayer_only = FALSE
    /\ locals = NoLocals
    /\ report = NoReport
    /\ dfx = NoTable
    /\ table = NoTable
    /\ NoMain
    /\ NoTaxsim

TwinPartialEarningsShift ==
    /\ twin.pc = "start"
    /\ LET res == partial_earnings_shift(twin.recs, recs_full_p, recs_full_b,
                                         recs_noes, param, twin.rng)
       IN  twin' = [pc |-> "partial", recs |-> res.recs, rng |-> res.rng,
                    locals |-> res.locals, report |-> res.report]
    /\ UNCHANGED <<pc, pre, recs, recs_noes, recs_full_p, recs_full_b, param,
                   taxpayer_only, rng, locals, report, dfx, table, mainVars,
                   taxsimVars>>

NextTwoExecutions ==
    \/ PartialEarningsShift
    \/ TwinPartialEarningsShift

SpecTwoExecutions == InitTwoExecutions /\ [][NextTwoExecutions]_vars

\* C6: two executions of partial_earnings_shift from the same record set,
\* reference sets and parameters have the same adoption masks in both
\* passes and the same resulting record set, whatever state the generator
\* was in when each was entered.
C6_Deterministic ==
    (pc = "partial" /\ twin.pc = "partial") =>
        /\ locals.does_p = twin.locals.does_p
        /\ locals.does_s = twin.locals.does_s
        /\ recs = twin.recs

\* Entered from different generator states, with a mask that the draws decide.
C6_Witness ==
    /\ pc = "partial" /\ twin.pc = "partial"
    /\ locals.entry_rng.seed # twin.locals.entry_rng.seed
    /\ locals.entry_rng.pos # twin.locals.entry_rng.pos
    /\ \E i, j \in Rows :
           /\ locals.does_p[i] /\ ~locals.does_p[j]
           /\ locals.prob_p[i] = locals.prob_p[j]
           /\ pre.e00200p[i] > 0 /\ pre.e00200p[j] > 0
    /\ recs # pre

----------------------------------------------------------------------------
(* write_decile_table.  The DataFrame is a function from TableIds to rows  *)
(* with the columns s006, expanded_income, iitax, payrolltax and combined. *)
(* The rows written are held as the numbers handed to the row format,      *)
(* before their scaling to millions and billions.  The tables are those of *)
(* a population that fills every decile, as the sampled population of      *)
(* main() does: rtns_series[decile] is read for every decile in 0..9.      *)

num_bins == 10

NumTableRows == 12

TableIds == 1..NumTableRows

RECURSIVE SetSum(_, _)
SetSum(f, S) ==
    IF S = {} THEN 0
    ELSE LET x == CHOOSE y \in S : TRUE IN f[x] + SetSum(f, S \ {x})

\* sort_values(by=income_measure): row j comes before row i
SortsBefore(d, j, i) ==
    \/ d[j].expanded_income < d[i].expanded_income
    \/ d[j].expanded_income = d[i].expanded_income /\ j < i

\* cumulative s006 of the sorted rows, up to and including row i
CumulativeWeight(d, i) ==
    SetSum([j \in DOMAIN d |-> d[j].s006],
           {j \in DOMAIN d : j = i \/ SortsBefore(d, j, i)})

\* add_weighted_income_bins(dfx, num_bins=10, 'expanded_income', False):
\* the bin label of each row.  Bin k takes the rows whose cumulative weight
\* lies in ((k-1)/num_bins, k/num_bins] of the total, so a row on a
\* boundary falls into the lower bin; 0 stands for a row that no bin takes.
add_weighted_income_bins(d) ==
    LET total == SetSum([j \in DOMAIN d |-> d[j].s006], DOMAIN d)
        Takes(k, i) == /\ (k - 1) * total < num_bins * CumulativeWeight(d, i)
                       /\ num_bins * CumulativeWeight(d, i) <= k * total
    IN  [i \in DOMAIN d |->
            IF \E k \in 1..num_bins : Takes(k, i)
            THEN CHOOSE k \in 1..num_bins : Takes(k, i)
            ELSE 0]

\* unweighted_sum(pdf, col) over the rows of one group
unweighted_sum(d, grp, col) == SetSum([i \in DOMAIN d |-> d[i][col]], grp)

\* weighted_sum(pdf, col) over the rows of one group
weighted_sum(d, grp, col) ==
    SetSum([i \in DOMAIN d |-> d[i][col] * d[i].s006], grp)

\* line 243: the keys of groupby('bins'), the labels some row carries
Labels(bins) == {bins[i] : i \in DOMAIN bins} \ {0}

\* A slip: the group of position decile taken to be the bin labelled decile.
GroupRows_LabelForPosition(bins, decile) ==
    {i \in DOMAIN bins : bins[i] = decile}

\* line 243: the group at position decile of groupby('bins'), the groups
\* being in the order of their labels
GroupRows(bins, decile) ==
    LET label == CHOOSE k \in Labels(bins) :
                     Cardinality({m \in Labels(bins) : m < k}) = decile
    IN  {i \in DOMAIN bins : bins[i] = label}

\* lines 244-248: the entry of the five series at one position
DecileRow(d, bins, decile) ==
    LET grp == GroupRows(bins, decile)
    IN  [Returns |-> unweighted_sum(d, grp, "s006"),
         ExpInc  |-> weighted_sum(d, grp, "expanded_income"),
         IncTax  |-> weighted_sum(d, grp, "iitax"),
         PayTax  |-> weighted_sum(d, grp, "payrolltax"),
         AllTax  |-> weighted_sum(d, grp, "combined")]

\* line 264: range(0, 10)
Deciles == 0..(num_bins - 1)

\* lines 272-277: the sum() of each of the five series, over every entry
\* the series has
AllRow(series) ==
    [c \in {"Returns", "ExpInc", "IncTax", "PayTax", "AllTax"} |->
        SetSum([pos \in DOMAIN series |-> series[pos][c]], DOMAIN series)]

\* bins: the labels; series: one entry per group; deciles: the ten rows
\* written at lines 264-270; all: the last row
write_decile_table(d) ==
    LET bins   == add_weighted_income_bins(d)
        series == [pos \in 0..(Cardinality(Labels(bins)) - 1) |->
                      DecileRow(d, bins, pos)]
    IN  [bins |-> bins, series |-> series,
         deciles |-> [decile \in Deciles |-> series[decile]],
         all |-> AllRow(series)]

\* s006: sampling weights, all positive, the first and the last row
\* possibly heavier than the others
TableWeights ==
    { [i \in TableIds |-> base + IF i \in heavy THEN 1 ELSE 0] :
        base \in 1..MaxWeight,
        heavy \in {{}, {1}, {NumTableRows}, {1, NumTableRows}} }

\* expanded_income: in any order against the row index, negative for some
\* rows, all different or equal in pairs
TableIncomes ==
    { [i \in TableIds |-> ((i + turn) % NumTableRows) \div same - 2] :
        turn \in 0..(NumTableRows - 1), same \in {1, 2} }

\* iitax: a total (positive), or a difference from a base (negative, mixed)
TableIncomeTaxes ==
    { [i \in TableIds |-> -1], [i \in TableIds |-> 2], [i \in TableIds |-> i - 3] }

\* lines 215-224: the columns of totdf and difdf
DecileTables ==
    { [i \in TableIds |->
          [s006 |-> w[i], expanded_income |-> x[i], iitax |-> it[i],
           payrolltax |-> pt, combined |-> it[i] + pt]] :
        w \in TableWeights, x \in TableIncomes, it \in TableIncomeTaxes,
        pt \in {0, 1} }

AllBinsPopulated(d) == Labels(add_weighted_income_bins(d)) = 1..num_bins

InitDecile ==
    /\ pc = "start"
    /\ dfx \in {d \in DecileTables : AllBinsPopulated(d)}
    /\ table = NoTable
    /\ pre = NoTable /\ recs = NoTable /\ recs_noes = NoTable
    /\ recs_full_p = NoTable /\ recs_full_b = NoTable
    /\ param = NoTable /\ rng = NoTable
    /\ taxpayer_only = FALSE
    /\ locals = NoLocals /\ report = NoReport /\ twin = NoTwin
    /\ NoMain
    /\ NoTaxsim

WriteDecileTable ==
    /\ pc = "start"
    /\ pc' = "written"
    /\ table' = write_decile_table(dfx)
    /\ UNCHANGED <<pre, recs, recs_noes, recs_full_p, recs_full_b, param,
                   taxpayer_only, rng, locals, report, twin, dfx, mainVars,
                   taxsimVars>>

NextDecile == WriteDecileTable

SpecDecile == InitDecile /\ [][NextDecile]_vars

RECURSIVE DirectTotal(_, _, _)
DirectTotal(d, f(_), n) ==
    IF n = 0 THEN 0 ELSE DirectTotal(d, f, n - 1) + f(d[n])

RowWeight(r) == r.s006
RowExpInc(r) == r.s006 * r.expanded_income
RowIncTax(r) == r.s006 * r.iitax
RowPayTax(r) == r.s006 * r.payrolltax
RowAllTax(r) == r.s006 * r.combined

-----------------------------------------------------------------------------
(* main().  Records, Policy and Calculator belong to the tax engine: a     *)
(* Calculator is held as its current year, its Records columns and the     *)
(* history of what has written to those columns.                           *)

first_reform_year == 2017

start_year == 2013

Scenarios == {"calc1", "calc2", "calc3p", "calc3b", "calc4"}

NoCalculator ==
    [built |-> FALSE, reform |-> FALSE, current_year |-> 0,
     records |-> NoTable, history |-> <<>>]

\* Calculator(policy=..., records=Records(), verbose=False)
NewCalculator(data, reform) ==
    [built |-> TRUE, reform |-> reform, current_year |-> start_year,
     records |-> data, history |-> <<>>]

\* calc.increment_year()
increment_year(c) == [c EXCEPT !.current_year = @ + 1]

\* calc.calc_all(): the engine scores the records; wages are taxed at twice
\* the rate of pass-through earnings under the reform
calc_all(c) ==
    [c EXCEPT !.records.combined =
                  [i \in Rows |->
                      IF c.reform
                      THEN 2 * c.records.e00200[i] + c.records.e02000[i]
                      ELSE 2 * (c.records.e00200[i] + c.records.e02000[i])],
              !.history = Append(@, "calc_all")]

\* A slip: the upper end of the probability range is not checked.
ParametersRejected_NoUpperCheck(prm) ==
    IF prm.taxyear < first_reform_year THEN "TAXYEAR"
    ELSE IF prm.shift_prob < 0 THEN "SHIFT_PROB"
    ELSE "no"

\* lines 43-50: which check, if any, rejects the parameters
ParametersRejected(prm) ==
    IF prm.taxyear < first_reform_year THEN "TAXYEAR"
    ELSE IF prm.shift_prob < 0 \/ prm.shift_prob > 1000000 THEN "SHIFT_PROB"
    ELSE "no"

InitMain ==
    /\ pc = "main"
    /\ \E p \in [Rows -> TaxpayerWages], s \in [Rows -> SpouseWages] :
           puf = MkRecords(Index, p, s, 0, CHOOSE pt \in PassThrough : pt.e02000 = 5, Zero)
    /\ param \in [taxyear : (first_reform_year - 2)..(first_reform_year + MaxYearsAhead),
                  min_earnings : {0, TopWage + 1}, min_savings : {0},
                  shift_prob : {-1, 0, 500000, 1000000, 1000001}]
    /\ calcs = [sc \in Scenarios |-> NoCalculator]
    /\ stdout = <<>>
    /\ stderr = <<>>
    /\ rc = <<>>
    /\ rng = [seed |-> 0, pos |-> 0]
    /\ locals = NoLocals
    /\ report = NoReport
    /\ pre = NoTable /\ recs = NoTable /\ recs_noes = NoTable
    /\ recs_full_p = NoTable /\ recs_full_b = NoTable
    /\ taxpayer_only = FALSE
    /\ twin = NoTwin /\ dfx = NoTable /\ table = NoTable
    /\ NoTaxsim

harnessVars == <<pre, recs, recs_noes, recs_full_p, recs_full_b, taxpayer_only,
                 twin, dfx, table, puf, param, taxsimVars>>

\* lines 41-52
Validate ==
    /\ pc = "main"
    /\ IF ParametersRejected(param) # "no"
       THEN /\ stderr' = Append(stderr, ParametersRejected(param))
            /\ rc' = <<1>>
            /\ pc' = "exit"
            /\ UNCHANGED stdout
       ELSE /\ stdout' = stdout \o <<"parameters", "">>
            /\ pc' = "build12"
            /\ UNCHANGED <<stderr, rc>>
    /\ UNCHANGED <<calcs, rng, locals, report, harnessVars>>

\* lines 54-65
BuildCalc1Calc2 ==
    /\ pc = "build12"
    /\ calcs' = [calcs EXCEPT !["calc1"] = NewCalculator(puf, FALSE),
                              !["calc2"] = NewCalculator(puf, TRUE)]
    /\ pc' = "advance12"
    /\ UNCHANGED <<stdout, stderr, rc, rng, locals, report, harnessVars>>

\* lines 68-70: one turn of the loop
AdvanceCalc1Calc2 ==
    /\ pc = "advance12"
    /\ calcs["calc1"].current_year < param.taxyear
    /\ calcs' = [calcs EXCEPT !["calc1"] = increment_year(@),
                              !["calc2"] = increment_year(@)]
    /\ UNCHANGED <<pc, stdout, stderr, rc, rng, locals, report, harnessVars>>

\* lines 71-72
ScoreCalc1Calc2 ==
    /\ pc = "advance12"
    /\ ~(calcs["calc1"].current_year < param.taxyear)
    /\ calcs' = [calcs EXCEPT !["calc1"] = calc_all(@),
                              !["calc2"] = calc_all(@)]
    /\ pc' = "tables12"
    /\ UNCHANGED <<stdout, stderr, rc, rng, locals, report, harnessVars>>

\* lines 75-78
WriteTables12 ==
    /\ pc = "tables12"
    /\ stdout' = stdout \o <<"CALC1", "CALC2 vs CALC1">>
    /\ pc' = "build3p"
    /\ UNCHANGED <<calcs, stderr, rc, rng, locals, report, harnessVars>>

\* lines 87-90 (calc3p), 95-98 (calc3b), 113-118 (calc4)
Build(sc, at, to) ==
    /\ pc = at
    /\ calcs' = [calcs EXCEPT ![sc] = NewCalculator(puf, TRUE)]
    /\ pc' = to
    /\ UNCHANGED <<stdout, stderr, rc, rng, locals, report, harnessVars>>

\* lines 91-92, 99-100, 121-122: one turn of the loop
Advance(sc, at) ==
    /\ pc = at
    /\ calcs[sc].current_year < param.taxyear
    /\ calcs' = [calcs EXCEPT ![sc] = increment_year(@)]
    /\ UNCHANGED <<pc, stdout, stderr, rc, rng, locals, report, harnessVars>>

\* lines 93 and 101
FullShift(sc, flag, at, to) ==
    /\ pc = at
    /\ ~(calcs[sc].current_year < param.taxyear)
    /\ calcs' = [calcs EXCEPT
                    ![sc].records = full_earnings_shift(@, flag),
                    ![sc].history = Append(@, "full_earnings_shift")]
    /\ pc' = to
    /\ UNCHANGED <<stdout, stderr, rc, rng, locals, report, harnessVars>>

\* lines 94, 102, 126
Score(sc, at, to) ==
    /\ pc = at
    /\ calcs' = [calcs EXCEPT ![sc] = calc_all(@)]
    /\ pc' = to
    /\ UNCHANGED <<stdout, stderr, rc, rng, locals, report, harnessVars>>

\* lines 105-106
WriteTables3 ==
    /\ pc = "tables3"
    /\ stdout' = Append(stdout, "CALC3 vs CALC2")
    /\ pc' = "build4"
    /\ UNCHANGED <<calcs, stderr, rc, rng, locals, report, harnessVars>>

\* A slip: the shift is also applied to the no-shifting records it reads.
PartialShift4_AlsoShiftsReference ==
    /\ pc = "advance4"
    /\ ~(calcs["calc4"].current_year < param.taxyear)
    /\ LET res == partial_earnings_shift(calcs["calc4"].records,
                                         calcs["calc3p"].records,
                                         calcs["calc3b"].records,
                                         calcs["calc2"].records, param, rng)
       IN  /\ calcs' = [calcs EXCEPT
                           !["calc4"].records = res.recs,
                           !["calc4"].history = Append(@, "partial_earnings_shift"),
                           !["calc2"].records =
                               MaskedShiftTaxpayer(@, res.locals.does_p)]
           /\ rng' = res.rng
           /\ locals' = res.locals
           /\ report' = res.report
           /\ stdout' = Append(stdout, "CALC4 shifters")
    /\ pc' = "score4"
    /\ UNCHANGED <<stderr, rc, harnessVars>>

\* lines 123-125
PartialShift4 ==
    /\ pc = "advance4"
    /\ ~(calcs["calc4"].current_year < param.taxyear)
    /\ LET res == partial_earnings_shift(calcs["calc4"].records,
                                         calcs["calc3p"].records,
                                         calcs["calc3b"].records,
                                         calcs["calc2"].records, param, rng)
       IN  /\ calcs' = [calcs EXCEPT
                           !["calc4"].records = res.recs,
                           !["calc4"].history = Append(@, "partial_earnings_shift")]
           /\ rng' = res.rng
           /\ locals' = res.locals
           /\ report' = res.report
           /\ stdout' = Append(stdout, "CALC4 shifters")
    /\ pc' = "score4"
    /\ UNCHANGED <<stderr, rc, harnessVars>>

\* lines 129-141
WriteTables4AndReturn ==
    /\ pc = "tables4"
    /\ stdout' = stdout \o <<"CALC4 vs CALC2", "CALC4 vs CALC1", "", "parameters">>
    /\ rc' = <<0>>
    /\ pc' = "exit"
    /\ UNCHANGED <<calcs, stderr, rng, locals, report, harnessVars>>

NextMain ==
    \/ Validate
    \/ BuildCalc1Calc2
    \/ AdvanceCalc1Calc2
    \/ ScoreCalc1Calc2
    \/ WriteTables12
    \/ Build("calc3p", "build3p", "advance3p")
    \/ Advance("calc3p", "advance3p")
    \/ FullShift("calc3p", TRUE, "advance3p", "score3p")
    \/ Score("calc3p", "score3p", "build3b")
    \/ Build("calc3b", "build3b", "advance3b")
    \/ Advance("calc3b", "advance3b")
    \/ FullShift("calc3b", FALSE, "advance3b", "score3b")
    \/ Score("calc3b", "score3b", "tables3")
    \/ WriteTables3
    \/ Build("calc4", "build4", "advance4")
    \/ Advance("calc4", "advance4")
    \/ PartialShift4
    \/ Score("calc4", "score4", "tables4")
    \/ WriteTables4AndReturn

SpecMain == InitMain /\ [][NextMain]_vars

Scored(sc) ==
    /\ calcs[sc].built
    /\ Len(calcs[sc].history) > 0
    /\ calcs[sc].history[Len(calcs[sc].history)] = "calc_all"

\* C10: main() returns 1 exactly when taxyear is before 2017 or shift_prob
\* is outside [0,1]; in that case no calculator is ever built, no record
\* set shifted or scored and nothing written to stdout; with any other
\* parameters main() runs on to its end, where every scenario has been
\* scored, every table written and the return code is 0.
C10_ExitCode ==
    LET bad == \/ param.taxyear < 2017
               \/ param.shift_prob < 0
               \/ param.shift_prob > 1000000
    IN  /\ pc = "exit" => (rc = <<1>> <=> bad) /\ (rc = <<0>> <=> ~bad)
        /\ bad => /\ \A sc \in Scenarios : calcs[sc] = NoCalculator
                  /\ stdout = <<>>
                  /\ report = NoReport
        /\ (pc = "exit" /\ ~bad) =>
               /\ \A sc \in Scenarios :
                      Scored(sc) /\ calcs[sc].current_year = param.taxyear
               /\ stdout = <<"parameters", "", "CALC1", "CALC2 vs CALC1",
                             "CALC3 vs CALC2", "CALC4 shifters", "CALC4 vs CALC2",
                             "CALC4 vs CALC1", "", "parameters">>
        /\ pc # "exit" => rc = <<>> /\ ENABLED NextMain

\* Rejected for a probability just above 1 in a valid year.
C10_Witness ==
    /\ pc = "exit"
    /\ rc = <<1>>
    /\ param.taxyear = 2017
    /\ param.shift_prob = 1000001
    /\ stderr = <<"SHIFT_PROB">>

----------------------------------------------------------------------------
(* process_tc_output.py: extract_output and construct_output_line.  A     *)
(* float, whether a cell of the tc --dump row or an entry of the           *)
(* dictionary, is a record: near is the thousandth nearest to the double,  *)
(* side the sign of the double minus near/1000, negative its sign bit.     *)
(* Float(x) is the double nearest to the decimal x/1000, which is what a   *)
(* cell written with up to three decimals is read as.  Magnitudes stay     *)
(* below 2^31 thousandths.  A line is a sequence of characters.  '{:.2f}'  *)
(* rounds the double, not the decimal it came from, to the nearest         *)
(* hundredth, ties to even, and prints the sign bit, also of a number that *)
(* rounds to zero and of -0.0.                                             *)

DigitChar(d) == <<"0", "1", "2", "3", "4", "5", "6", "7", "8", "9">>[d + 1]

RECURSIVE Digits(_)
Digits(n) ==
    IF n < 10 THEN <<DigitChar(n)>>
    ELSE Digits(n \div 10) \o <<DigitChar(n % 10)>>

Magnitude(x) == IF x < 0 THEN -x ELSE x

\* int(v) of a float v: truncation towards zero
int(v) ==
    LET m     == Magnitude(v.near)
        below == IF v.negative THEN v.side > 0 ELSE v.side < 0
        whole == IF m % 1000 = 0 /\ m > 0 /\ below THEN m \div 1000 - 1
                 ELSE m \div 1000
    IN  IF v.negative THEN -whole ELSE whole

\* '{:d}'.format(n)
FormatD(n) == (IF n < 0 THEN <<"-">> ELSE <<>>) \o Digits(Magnitude(n))

RECURSIVE Pow2Mod(_, _)
Pow2Mod(e, n) == IF e = 0 THEN 1 ELSE (2 * Pow2Mod(e - 1, n)) % n

Sign(v) == IF v > 0 THEN 1 ELSE IF v < 0 THEN -1 ELSE 0

\* floor(log2(m / 1000)) for m > 0
RECURSIVE BinaryExponent(_)
BinaryExponent(m) ==
    IF m >= 2000 THEN BinaryExponent(m \div 2) + 1
    ELSE IF m < 1000 THEN BinaryExponent(2 * m) - 1
    ELSE 0

\* The doubles next to x / 1000 are the multiples of 2^-DoubleScale(x).
DoubleScale(x) == IF x = 0 THEN 0 ELSE 52 - BinaryExponent(Magnitude(x))

\* What m * 2^e / 1000 leaves over its 53-bit whole part, in thousandths of
\* the last bit, for m > 0 (500 cannot occur, as e >= 3)
SignificandRest(m) == ((m % 1000) * Pow2Mod(DoubleScale(m), 1000)) % 1000

\* Whether the whole part of m * 2^e / 1000 is odd, for m > 0
SignificandOdd(m) ==
    (((m % 2000) * Pow2Mod(DoubleScale(m), 2000)) % 2000) \div 1000 = 1

\* double(x / 1000) - x / 1000 in units of 2^-DoubleScale(x) / 1000: the
\* significand is rounded to nearest
DoubleExcess(x) ==
    IF x = 0 THEN 0
    ELSE LET r == SignificandRest(Magnitude(x))
             s == IF r = 0 THEN 0 ELSE IF r < 500 THEN -r ELSE 1000 - r
         IN  IF x > 0 THEN s ELSE -s

\* The sign of double(m / 1000) - m / 1000 for m > 0
DoubleError(m) == Sign(DoubleExcess(m))

\* m / 1000 is a power of two, for m > 0
RECURSIVE IsPowerOfTwo(_)
IsPowerOfTwo(m) ==
    IF m >= 2000 THEN m % 2 = 0 /\ IsPowerOfTwo(m \div 2)
    ELSE IF m < 1000 THEN IsPowerOfTwo(2 * m)
    ELSE m = 1000

\* The sign of the sum of t[i][1] * 2^(t[i][2]) over three terms with
\* |t[i][1]| <= 500, taken from the highest power down: once the part seen
\* reaches 1500 the terms below cannot turn it.
RECURSIVE SignScan(_, _, _)
SignScan(acc, lvl, t) ==
    LET here == acc + (IF t[1][2] = lvl THEN t[1][1] ELSE 0)
                    + (IF t[2][2] = lvl THEN t[2][1] ELSE 0)
                    + (IF t[3][2] = lvl THEN t[3][1] ELSE 0)
    IN  IF here >= 1500 THEN 1
        ELSE IF here <= -1500 THEN -1
        ELSE IF lvl = 0 THEN Sign(here)
        ELSE SignScan(2 * here, lvl - 1, t)

SignOfSum(t) ==
    LET top == CHOOSE s \in {t[1][2], t[2][2], t[3][2]} :
                   \A i \in 1..3 : t[i][2] <= s
    IN  SignScan(0, top, t)

\* The sign of fl(double(a/1000) - double(b/1000)) - (a - b)/1000 for
\* a > b.  The exact difference of the two doubles is a multiple of 2^-f;
\* when the result's own scale ec is at least f it is a double and nothing
\* is rounded; otherwise it is rounded to a multiple of 2^-ec, ties to the
\* even significand.
SubSideAbove(a, b) ==
    LET c  == a - b
        ea == DoubleScale(a)
        eb == DoubleScale(b)
        ec == DoubleScale(c)
        f  == IF ea > eb THEN ea ELSE eb
        ta == <<DoubleExcess(a), f - ea>>
        tb == <<-DoubleExcess(b), f - eb>>
    IN  IF f <= ec THEN SignOfSum(<<ta, tb, <<0, 0>> >>)
        ELSE LET rest == SignificandRest(c)
                 odd  == SignificandOdd(c)
                 up   == SignOfSum(<<ta, tb, <<rest - 500, f - ec>> >>)
                 thr  == IF IsPowerOfTwo(c) THEN 250 ELSE 500
                 dn   == SignOfSum(<<ta, tb, <<thr, f - ec>> >>)
             IN  IF rest # 0
                 THEN IF up > 0 THEN 1
                      ELSE IF up < 0 THEN -1
                      ELSE IF odd THEN 1 ELSE -1
                 ELSE IF up > 0 THEN 1
                      ELSE IF up = 0 THEN (IF odd THEN 1 ELSE 0)
                      ELSE IF dn < 0 THEN -1
                      ELSE IF dn = 0 THEN (IF odd THEN -1 ELSE 0)
                      ELSE 0

SubSide(a, b) ==
    IF a = b THEN 0
    ELSE IF a > b THEN SubSideAbove(a, b)
    ELSE -SubSideAbove(b, a)

\* The double nearest to x / 1000; Float(0) is the literal 0.0
Float(x) == [near |-> x, side |-> Sign(DoubleExcess(x)), negative |-> x < 0]

\* -0.0, as a cell written "-0.00" is read
NegativeZero == [near |-> 0, side |-> 0, negative |-> TRUE]

\* A negative double nearer to zero than to -0.001
TinyNegative == [near |-> 0, side |-> -1, negative |-> TRUE]

\* u - v of two floats that are each the double nearest to a thousandth or
\* -0.0, rounded to a double; equal operands give 0.0, but -0.0 - 0.0 is
\* -0.0
FloatSub(u, v) ==
    [near     |-> u.near - v.near,
     side     |-> SubSide(u.near, v.near),
     negative |-> IF u.near # v.near THEN u.near < v.near
                  ELSE u.negative /\ ~v.negative]

\* The hundredths '{:.2f}' prints for a double of magnitude m / 1000 lying
\* below (side < 0), on or above m / 1000
RoundedCents(m, side) ==
    IF m % 10 # 5 THEN (m + 5) \div 10
    ELSE LET lo == m \div 10
         IN  IF side < 0 THEN lo
             ELSE IF side > 0 THEN lo + 1
             ELSE IF lo % 2 = 0 THEN lo ELSE lo + 1

\* '{:.2f}'.format(v) of a float v
FormatF2(v) ==
    LET cents == RoundedCents(Magnitude(v.near),
                              IF v.negative THEN -v.side ELSE v.side)
    IN  (IF v.negative THEN <<"-">> ELSE <<>>)
            \o Digits(cents \div 100)
            \o <<".", DigitChar((cents \div 10) % 10), DigitChar(cents % 10)>>

\* A slip: field 28 is c05800 as the Tax-Calculator reports it, AMT included.
extract_output_WithAMT(out) ==
    [k \in 1..28 |->
        CASE k = 1  -> int(out.RECID)
          [] k = 2  -> int(out.FLPDYR)
          [] k = 3  -> 0
          [] k = 4  -> out.iitax
          [] k = 6  -> out.payrolltax
          [] k = 10 -> out.c00100
          [] k = 11 -> out.e02300
          [] k = 12 -> out.c02500
          [] k = 14 -> out.c04600
          [] k = 15 -> FloatSub(out.pre_c04600, out.c04600)
          [] k = 16 -> out.c21040
          [] k = 17 -> out.c04470
          [] k = 18 -> out.c04800
          [] k = 19 -> out.taxbc
          [] k = 22 -> out.c07220
          [] k = 23 -> out.c11070
          [] k = 24 -> out.c07180
          [] k = 25 -> out.eitc
          [] k = 26 -> out.c62100
          [] k = 27 -> out.c09600
          [] k = 28 -> out.c05800
          [] OTHER  -> Float(0)]

\* lines 96-136: the dictionary indexed 1..28; entries 1-3 are ints, the
\* others floats, 15 and 28 the results of a subtraction (lines 112, 135)
extract_output(out) ==
    [k \in 1..28 |->
        CASE k = 1  -> int(out.RECID)
          [] k = 2  -> int(out.FLPDYR)
          [] k = 3  -> 0
          [] k = 4  -> out.iitax
          [] k = 6  -> out.payrolltax
          [] k = 10 -> out.c00100
          [] k = 11 -> out.e02300
          [] k = 12 -> out.c02500
          [] k = 14 -> out.c04600
          [] k = 15 -> FloatSub(out.pre_c04600, out.c04600)
          [] k = 16 -> out.c21040
          [] k = 17 -> out.c04470
          [] k = 18 -> out.c04800
          [] k = 19 -> out.taxbc
          [] k = 22 -> out.c07220
          [] k = 23 -> out.c11070
          [] k = 24 -> out.c07180
          [] k = 25 -> out.eitc
          [] k = 26 -> out.c62100
          [] k = 27 -> out.c09600
          [] k = 28 -> FloatSub(out.c05800, out.c09600)
          [] OTHER  -> Float(0)]

\* lines 139-166: OVAR_FMT[vnum].format(value)
OVAR_FMT(vnum, value) ==
    IF vnum = 1 THEN FormatD(value) \o <<".">>
    ELSE IF vnum \in {2, 3} THEN <<" ">> \o FormatD(value)
    ELSE <<" ">> \o FormatF2(value)

\* lines 183-184: the loop, from vnum to len(odict)
RECURSIVE FormatFrom(_, _)
FormatFrom(odict, vnum) ==
    IF vnum > Cardinality(DOMAIN odict) THEN <<>>
    ELSE OVAR_FMT(vnum, odict[vnum]) \o FormatFrom(odict, vnum + 1)

\* lines 182-186
construct_output_line(odict) == FormatFrom(odict, 1) \o <<"\n">>

\* (pre_c04600, c04600): the exemption amount before and after phase-out
ExemptionAmounts == {<<4050000, 4050000>>, <<4050000, 1000000>>, <<2665, 2660>>}

\* (c09600, c05800): AMT liability and the gross tax that includes it
AmtAndGrossTax ==
    {<<0, 250001>>, <<0, 1000052>>, <<250001, 250001>>, <<250001, 1000052>>,
     <<2670, 2675>>, <<1000, 1005>>}

\* iitax: refundable credits can leave it negative, or at -0.0
IncomeTaxes ==
    {Float(-150504), Float(-125), Float(-4), Float(15), Float(1234567),
     NegativeZero, TinyNegative}

DumpRows ==
    { [RECID |-> Float(id), FLPDYR |-> Float(yr), iitax |-> it,
       payrolltax |-> Float(pt),
       c00100 |-> Float(50000000), e02300 |-> Float(0), c02500 |-> Float(0),
       pre_c04600 |-> Float(pe[1]), c04600 |-> Float(pe[2]),
       c21040 |-> Float(0), c04470 |-> Float(6300004),
       c04800 |-> Float(39649996), taxbc |-> Float(5712499),
       c07220 |-> Float(1000000), c11070 |-> Float(0), c07180 |-> Float(0),
       eitc |-> Float(ei), c62100 |-> Float(50000000),
       c09600 |-> Float(tx[1]), c05800 |-> Float(tx[2])] :
        id \in {1000, 12500}, yr \in {2013000, 2017000},
        it \in IncomeTaxes, pt \in {0, 2675},
        pe \in ExemptionAmounts, ei \in {0, 500499},
        tx \in AmtAndGrossTax }

InitTaxsim ==
    /\ pc = "row"
    /\ tcout \in DumpRows
    /\ ovar = NoTable
    /\ outline = NoTable
    /\ pre = NoTable /\ recs = NoTable /\ recs_noes = NoTable
    /\ recs_full_p = NoTable /\ recs_full_b = NoTable
    /\ param = NoTable /\ rng = NoTable
    /\ taxpayer_only = FALSE
    /\ locals = NoLocals /\ report = NoReport /\ twin = NoTwin
    /\ dfx = NoTable /\ table = NoTable
    /\ NoMain

\* line 72
ExtractOutput ==
    /\ pc = "row"
    /\ pc' = "dict"
    /\ ovar' = extract_output(tcout)
    /\ UNCHANGED <<pre, recs, recs_noes, recs_full_p, recs_full_b, param,
                   taxpayer_only, rng, locals, report, twin, dfx, table,
                   mainVars, tcout, outline>>

\* lines 73-74
ConstructOutputLine ==
    /\ pc = "dict"
    /\ pc' = "line"
    /\ outline' = construct_output_line(ovar)
    /\ UNCHANGED <<pre, recs, recs_noes, recs_full_p, recs_full_b, param,
                   taxpayer_only, rng, locals, report, twin, dfx, table,
                   mainVars, tcout, ovar>>

NextTaxsim ==
    \/ ExtractOutput
    \/ ConstructOutputLine

SpecTaxsim == InitTaxsim /\ [][NextTaxsim]_vars

(* Reading a line back *)

\* The fields of a line body: the runs of characters between single spaces.
Fields(s) ==
    LET spaces == {i \in 1..Len(s) : s[i] = " "}
        cut(j) == IF j = 0 THEN 0
                  ELSE IF j > Cardinality(spaces) THEN Len(s) + 1
                  ELSE CHOOSE i \in spaces :
                           Cardinality({x \in spaces : x <= i}) = j
    IN  [k \in 1..(Cardinality(spaces) + 1) |->
            SubSeq(s, cut(k - 1) + 1, cut(k) - 1)]

IsDigits(s) ==
    /\ Len(s) >= 1
    /\ \A i \in 1..Len(s) : \E d \in 0..9 : s[i] = DigitChar(d)

Unsigned(s) == IF s # <<>> /\ Head(s) = "-" THEN Tail(s) ELSE s

RECURSIVE ReadNat(_)
ReadNat(s) ==
    IF s = <<>> THEN 0
    ELSE 10 * ReadNat(SubSeq(s, 1, Len(s) - 1))
             + (CHOOSE d \in 0..9 : s[Len(s)] = DigitChar(d))

IsInteger(s) == IsDigits(Unsigned(s))

ReadInteger(s) == IF Unsigned(s) # s THEN -ReadNat(Unsigned(s)) ELSE ReadNat(s)

\* [-]digits.dd
IsTwoDecimal(s) ==
    LET u == Unsigned(s)
        n == Len(u)
    IN  /\ n >= 4
        /\ u[n - 2] = "."
        /\ IsDigits(SubSeq(u, 1, n - 3))
        /\ IsDigits(SubSeq(u, n - 1, n))

\* the number of hundredths a two-decimal field stands for
ReadHundredths(s) ==
    LET u == Unsigned(s)
        n == Len(u)
        v == 100 * ReadNat(SubSeq(u, 1, n - 3)) + ReadNat(SubSeq(u, n - 1, n))
    IN  IF Unsigned(s) # s THEN -v ELSE v

\* A field read as h hundredths is one of the two-decimal numbers nearest
\* to x thousandths.
IsNearestHundredth(h, x) == 10 * h - x \in -5..5

\* C11: extract_output returns exactly the keys 1..28, and the line
\* construct_output_line builds from them is 28 fields in key order and one
\* newline: field 1 an integer followed by a decimal point, fields 2-3
\* integers and fields 4-28 two-decimal numbers, each of fields 2-28 after
\* a single space; each field reads back as its dictionary entry to the
\* nearest hundredth and with its sign, field 27 as c09600 and field 28 as
\* c05800 minus c09600.
C11_TaxsimLine ==
    /\ pc \in {"dict", "line"} => DOMAIN ovar = 1..28
    /\ pc = "line" =>
           LET n == Len(outline)
               f == Fields(SubSeq(outline, 1, n - 1))
               first == f[1]
           IN  /\ outline[n] = "\n"
               /\ \A i \in 1..(n - 1) : outline[i] # "\n"
               /\ Len(f) = 28
               /\ first[Len(first)] = "."
               /\ IsInteger(SubSeq(first, 1, Len(first) - 1))
               /\ ReadInteger(SubSeq(first, 1, Len(first) - 1)) = int(tcout.RECID)
               /\ IsInteger(f[2]) /\ ReadInteger(f[2]) = int(tcout.FLPDYR)
               /\ IsInteger(f[3]) /\ ReadInteger(f[3]) = 0
               /\ \A k \in 4..28 :
                      /\ IsTwoDecimal(f[k])
                      /\ IsNearestHundredth(ReadHundredths(f[k]), ovar[k].near)
                      /\ Head(f[k]) = "-" <=> ovar[k].negative
               /\ IsNearestHundredth(ReadHundredths(f[27]), tcout.c09600.near)
               /\ IsNearestHundredth(ReadHundredths(f[28]),
                                     tcout.c05800.near - tcout.c09600.near)

\* A row with a fractional RECID, an income tax of -0.0, a payroll tax of
\* 2.675, whose double lies below the tie, and an AMT liability of 2.67 in
\* a gross tax of 2.675, whose difference as doubles lies below 0.005.
C11_Witness ==
    /\ pc = "line"
    /\ tcout.c09600 = Float(2670)
    /\ tcout.c05800 = Float(2675)
    /\ tcout.RECID.near % 1000 # 0
    /\ tcout.iitax = NegativeZero
    /\ tcout.payrolltax = Float(2675)
    /\ LET f == Fields(SubSeq(outline, 1, Len(outline) - 1))
       IN  /\ f[4] = <<"-", "0", ".", "0", "0">>
           /\ f[6] = <<"2", ".", "6", "7">>
           /\ f[27] = <<"2", ".", "6", "7">>
           /\ f[28] = <<"0", ".", "0", "0">>

----------------------------------------------------------------------------
(* The life of a scenario's record set in main() *)

\* What writes to the record columns of a scenario, in order.
Lifecycle(sc) ==
    IF sc \in {"calc1", "calc2"} THEN <<"calc_all">>
    ELSE IF sc \in {"calc3p", "calc3b"} THEN <<"full_earnings_shift", "calc_all">>
    ELSE <<"partial_earnings_shift", "calc_all">>

IsPrefix(h, full) == Len(h) <= Len(full) /\ h = SubSeq(full, 1, Len(h))

WritesFollowLifecycle ==
    \A sc \in Scenarios : IsPrefix(calcs[sc].history, Lifecycle(sc))

\* A step changes the columns of a built scenario only as one recorded
\* write, and changes nothing of a scored scenario.
StepRespectsScoring ==
    \A sc \in Scenarios :
        /\ (calcs[sc].built /\ calcs'[sc].records # calcs[sc].records) =>
               Len(calcs'[sc].history) = Len(calcs[sc].history) + 1
        /\ Scored(sc) => calcs'[sc] = calcs[sc]

\* C12: in every run of main(), the record columns of a scenario are
\* written by at most one shift transform (full_earnings_shift for calc3p
\* and calc3b, partial_earnings_shift for calc4, none for calc1 and calc2),
\* the shift comes before the scenario's calc_all, and once a scenario has
\* been scored none of its columns changes again: the partial shift of
\* calc4 leaves calc2, calc3p and calc3b, which it reads, as they were.
C12_WrittenOnceBeforeScoring ==
    /\ []WritesFollowLifecycle
    /\ [][StepRespectsScoring]_vars

\* The run has ended with every scenario scored, calc4's wages shifted for
\* some row and the three scored record sets the shift read still as scored.
C12_Witness ==
    /\ pc = "exit"
    /\ rc = <<0>>
    /\ \A sc \in Scenarios : calcs[sc].history = Lifecycle(sc)
    /\ \E i \in Rows :
           /\ locals.does_p[i]
           /\ puf.e00200p[i] > 0
           /\ calcs["calc4"].records.e00200p[i] = 0
           /\ calcs["calc2"].records.e00200p[i] = puf.e00200p[i]
    /\ calcs["calc2"].records = calc_all(NewCalculator(puf, TRUE)).records

----------------------------------------------------------------------------
(* The total-wage column and its components *)

ComponentsAddUp(r, i) == r.e00200[i] = r.e00200p[i] + r.e00200s[i]

EarningsTotal(r, i) == r.e00200[i] + r.e02000[i]

\* C13: for every row, if e00200 = e00200p + e00200s holds before a call
\* of full_earnings_shift (either flag) or of partial_earnings_shift (any
\* adoption masks), it holds after the call, and after the taxpayer pass of
\* the partial shift; e00200 + e02000 is the same before and after.
C13_TotalWageConsistent ==
    pc \in {"full", "partial"} =>
        \A i \in Rows :
            /\ ComponentsAddUp(pre, i) => ComponentsAddUp(recs, i)
            /\ EarningsTotal(recs, i) = EarningsTotal(pre, i)
            /\ pc = "partial" =>
                   /\ ComponentsAddUp(pre, i) => ComponentsAddUp(locals.mid, i)
                   /\ EarningsTotal(locals.mid, i) = EarningsTotal(pre, i)

\* A partial shift in which a row with consistent wages of both earners has
\* only the spouse's moved, and another row has neither moved.
C13_Witness ==
    /\ pc = "partial"
    /\ \E i, j \in Rows :
           /\ ComponentsAddUp(pre, i)
           /\ pre.e00200p[i] > 0 /\ pre.e00200s[i] > 0
           /\ locals.does_s[i]
           /\ recs.e00200[i] = recs.e00200p[i]
           /\ recs.e00200s[i] = 0
           /\ recs.e00200[j] = pre.e00200[j]
           /\ pre.e00200[j] > 0

=============================================================================
